---- MODULE Spec2Model ----
(***************************************************************************)
(* Model of FileUtilOperationTask.c: a command-line tool that walks a      *)
(* directory tree with nftw() and, depending on the argument count,        *)
(* locates a file (3), locates and copies/moves it (5), or writes every    *)
(* file whose name contains an extension to storageDir/a1.tar (4).         *)
(*                                                                         *)
(* C strings are sequences of one-character strings; a file system is a    *)
(* function from the existing paths to nodes; file contents are sequences  *)
(* of bytes.                                                               *)
(***************************************************************************)
EXTENDS Integers, Sequences, FiniteSets, TLC

VARIABLES argc, rootDir, storageDir, operation, enteredFileName, extension,
          found_file, fs, fs0, dirOrder, pc, todo, nftwRet, out, exitCode,
          visited, lastCall, tarOpens, handles

vars == <<argc, rootDir, storageDir, operation, enteredFileName, extension,
          found_file, fs, fs0, dirOrder, pc, todo, nftwRet, out, exitCode,
          visited, lastCall, tarOpens, handles>>

args == <<argc, rootDir, storageDir, operation, enteredFileName, extension,
          fs0, dirOrder>>

----------------------------------------------------------------------------
(* Bounds of the model *)

\* largest number of full buffers in a modelled file
MaxChunks == 2

(* Program constants *)

BufSize == 1024
PathMax == 4096

----------------------------------------------------------------------------
(* Names used in the modelled trees *)

a_log  == <<"a", ".", "l", "o", "g">>
c_txt  == <<"c", ".", "t", "x", "t">>
d_log  == <<"d", ".", "l", "o", "g">>
m_logf == <<"m", ".", "l", "o", "g", "f">>
x_txt  == <<"x", ".", "t", "x", "t">>
z_txt  == <<"z", ".", "t", "x", "t">>
a1_tar == <<"a", "1", ".", "t", "a", "r">>
ext_log == <<".", "l", "o", "g">>
ext_txt == <<".", "t", "x", "t">>
op_cp  == <<"-", "c", "p">>
op_mv  == <<"-", "m", "v">>
op_rm  == <<"-", "r", "m">>
dir_r  == <<"r">>
dir_s  == <<"s">>
file_f == <<"f">>
none_n == <<"n">>

\* the null pointer: a value that is no C string
NULL == <<"NULL">>

Min(a, b) == IF a < b THEN a ELSE b

\* snprintf(buf, n, "%s", s): at most n-1 characters are stored
Snprintf(n, s) == SubSeq(s, 1, Min(Len(s), n - 1))

\* snprintf(buf, PATH_MAX, "%s/%s", dir, name)
Join(dir, name) == Snprintf(PathMax, dir \o <<"/">> \o name)

\* struct FTW .base: offset of the final component of fpath
BaseOffset(fpath) ==
    LET slashes == {i \in 1..Len(fpath) : fpath[i] = "/"}
    IN  IF slashes = {} THEN 0
        ELSE CHOOSE i \in slashes : \A j \in slashes : j <= i

\* the C expression  s + off
StrFrom(s, off) == SubSeq(s, off + 1, Len(s))

\* dirname of a path ("" when there is none)
Parent(p) == SubSeq(p, 1, BaseOffset(p) - 1)

\* strstr(haystack, needle) != NULL
strstr(haystack, needle) ==
    \E i \in 0..(Len(haystack) - Len(needle)) :
        SubSeq(haystack, i + 1, i + Len(needle)) = needle

\* strcmp(a, b) == 0
strcmp0(a, b) == a = b

----------------------------------------------------------------------------
(* File system *)

DirNode == [type |-> "dir", data |-> <<>>]
FileNode(d) == [type |-> "file", data |-> d]

IsDir(f, p)  == p \in DOMAIN f /\ f[p].type = "dir"
IsFile(f, p) == p \in DOMAIN f /\ f[p].type = "file"

\* create or replace the node at p
Put(f, p, node) == [q \in DOMAIN f \cup {p} |-> IF q = p THEN node ELSE f[q]]

\* remove the node at p
Remove(f, p) == [q \in DOMAIN f \ {p} |-> f[q]]

\* content of the modelled files: n bytes that depend on the file
Content(tag, n) == [i \in 1..n |-> (tag * 16 + i) % 256]

\* order in which readdir() returns the names of a directory
NameOrder == <<a_log, a1_tar, c_txt, d_log, m_logf, x_txt, z_txt>>

Reverse(s) == [i \in 1..Len(s) |-> s[Len(s) + 1 - i]]

\* the entries of directory d, as nftw reads them when it opens d
ReadDir(f, d, order) ==
    LET names == IF order = "asc" THEN NameOrder ELSE Reverse(NameOrder)
        here  == SelectSeq(names, LAMBDA n : (d \o <<"/">> \o n) \in DOMAIN f)
    IN  [i \in 1..Len(here) |-> d \o <<"/">> \o here[i]]

\* the type flag nftw(FTW_PHYS) passes for an entry
TypeFlag(f, p) ==
    IF IsFile(f, p) THEN "FTW_F"
    ELSE IF IsDir(f, p) THEN "FTW_D"
    ELSE "FTW_NS"

----------------------------------------------------------------------------
(* Output lines *)

Msg(m) == [msg |-> m, path |-> <<>>]
PathLine(p) == [msg |-> "path", path |-> p]

----------------------------------------------------------------------------
(* directory_exists: stat(path) succeeds and S_ISDIR *)

\* a variant that omits S_ISDIR: any path stat() finds counts as a directory
directory_exists_StatOnly(f, path) == path \in DOMAIN f

directory_exists(f, path) == path \in DOMAIN f /\ f[path].type = "dir"

----------------------------------------------------------------------------
(* The environment's faults: at most one system call of a visitor call     *)
(* fails for a reason the tree does not determine (permissions, a full     *)
(* disk, a rename across devices).                                         *)

Faults == {"none", "src_open", "dest_open", "write", "rename", "gzopen", "gzwrite"}

\* fopen(path, "rb")
FopenRead(f, path, flt) == IsFile(f, path) /\ flt # "src_open"

\* fopen(path, "wb") or gzopen(path, "wb"): the parent is a directory and the
\* path is no directory
FopenWrite(f, path, flt, kind) ==
    /\ IsDir(f, Parent(path))
    /\ ~IsDir(f, path)
    /\ flt # kind

\* the FILE and gzFile handles of the process: how many are open, and how
\* many were opened so far
NoHandles == [open |-> 0, total |-> 0]

\* a successful fopen or gzopen
Opened(h) == [open |-> h.open + 1, total |-> h.total + 1]

\* fclose or gzclose
Closed(h) == [h EXCEPT !.open = @ - 1]

\* the next fread(buffer, 1, sizeof buffer, file) at offset pos
Fread(data, pos) == SubSeq(data, pos + 1, Min(Len(data), pos + BufSize))

----------------------------------------------------------------------------
(* copy_or_move_file.  w is the part of the state a visitor call changes:  *)
(* fs, out, found (found_file), last (a record of the latest transfer) and *)
(* opens (the number of gzopen calls) and handles (the FILE and gzFile     *)
(* handles opened so far and those still open).                            *)

\* the fread/fwrite loop of the copy branch, from offset pos of the source;
\* both files are read and written in the same file system f
RECURSIVE CopyLoop(_, _, _, _, _)
CopyLoop(f, src_path, dest_path, pos, flt) ==
    LET chunk == Fread(f[src_path].data, pos)
    IN  IF Len(chunk) = 0
        THEN [fs |-> f, ok |-> TRUE]
        ELSE IF flt = "write"
        THEN [fs |-> Put(f, dest_path,
                         FileNode(f[dest_path].data
                                  \o SubSeq(chunk, 1, Len(chunk) - 1))),
              ok |-> FALSE]
        ELSE CopyLoop(Put(f, dest_path, FileNode(f[dest_path].data \o chunk)),
                      src_path, dest_path, pos + Len(chunk), flt)

\* a record of a call of copy_or_move_file: its arguments, the bytes the
\* source held before the call, and the number of lines printed before it
Transfer(op, src_path, dest_path, before, at) ==
    [op |-> op, src |-> src_path, dest |-> dest_path, before |-> before,
     at |-> at]

NoTransfer == Transfer(NULL, <<>>, <<>>, <<>>, 0)

DataOf(f, p) == IF IsFile(f, p) THEN f[p].data ELSE <<>>

\* a variant that ignores the result of rename()
copy_or_move_file_RenameUnchecked(w, src_path, dest_path, op, flt) ==
    LET call == Transfer(op, src_path, dest_path, DataOf(w.fs, src_path),
                         Len(w.out))
        renamed == ~(\/ flt = "rename"
                     \/ src_path \notin DOMAIN w.fs
                     \/ ~IsDir(w.fs, Parent(dest_path))
                     \/ IsDir(w.fs, dest_path))
        f == IF renamed /\ src_path # dest_path
             THEN Put(Remove(w.fs, src_path), dest_path, w.fs[src_path])
             ELSE w.fs
    IN  IF strcmp0(op, op_mv)
        THEN [w EXCEPT !.fs = f,
                       !.out = @ \o <<Msg("Search Successful"),
                                      Msg("File moved to the storageDir")>>,
                       !.last = call]
        ELSE [w EXCEPT !.last = call]

\* a variant that returns without fclose(src_file) when the destination
\* cannot be opened
copy_or_move_file_SourceLeft(w, src_path, dest_path, op, flt) ==
    LET call == Transfer(op, src_path, dest_path, DataOf(w.fs, src_path),
                         Len(w.out))
        failed(f, m, h) ==
            [w EXCEPT !.fs = f, !.out = @ \o <<Msg(m)>>, !.last = call,
                      !.handles = h]
        done(f, m, h) ==
            [w EXCEPT !.fs = f,
                      !.out = @ \o <<Msg("Search Successful"), Msg(m)>>,
                      !.last = call, !.handles = h]
    IN  IF strcmp0(op, op_cp)
        THEN IF ~FopenRead(w.fs, src_path, flt)
             THEN failed(w.fs, "fopen source file", w.handles)
             ELSE IF ~FopenWrite(w.fs, dest_path, flt, "dest_open")
             THEN failed(w.fs, "fopen destination file", Opened(w.handles))
             ELSE LET r == CopyLoop(Put(w.fs, dest_path, FileNode(<<>>)),
                                    src_path, dest_path, 0, flt)
                      h == Opened(Opened(w.handles))
                  IN  IF r.ok
                      THEN done(r.fs, "File copied to the storageDir",
                                Closed(Closed(h)))
                      ELSE failed(r.fs, "fwrite", Closed(Closed(h)))
        ELSE IF strcmp0(op, op_mv)
        THEN IF \/ flt = "rename"
                \/ src_path \notin DOMAIN w.fs
                \/ ~IsDir(w.fs, Parent(dest_path))
                \/ IsDir(w.fs, dest_path)
             THEN failed(w.fs, "rename", w.handles)
             ELSE IF src_path = dest_path
             THEN done(w.fs, "File moved to the storageDir", w.handles)
             ELSE done(Put(Remove(w.fs, src_path), dest_path, w.fs[src_path]),
                       "File moved to the storageDir", w.handles)
        ELSE [w EXCEPT !.last = call]

copy_or_move_file(w, src_path, dest_path, op, flt) ==
    LET call == Transfer(op, src_path, dest_path, DataOf(w.fs, src_path),
                         Len(w.out))
        failed(f, m, h) ==
            [w EXCEPT !.fs = f, !.out = @ \o <<Msg(m)>>, !.last = call,
                      !.handles = h]
        done(f, m, h) ==
            [w EXCEPT !.fs = f,
                      !.out = @ \o <<Msg("Search Successful"), Msg(m)>>,
                      !.last = call, !.handles = h]
    IN  IF strcmp0(op, op_cp)
        THEN IF ~FopenRead(w.fs, src_path, flt)
             THEN failed(w.fs, "fopen source file", w.handles)
             ELSE IF ~FopenWrite(w.fs, dest_path, flt, "dest_open")
             THEN failed(w.fs, "fopen destination file",
                         Closed(Opened(w.handles)))
             ELSE LET r == CopyLoop(Put(w.fs, dest_path, FileNode(<<>>)),
                                    src_path, dest_path, 0, flt)
                      h == Opened(Opened(w.handles))
                  IN  IF r.ok
                      THEN done(r.fs, "File copied to the storageDir",
                                Closed(Closed(h)))
                      ELSE failed(r.fs, "fwrite", Closed(Closed(h)))
        ELSE IF strcmp0(op, op_mv)
        THEN IF \/ flt = "rename"
                \/ src_path \notin DOMAIN w.fs
                \/ ~IsDir(w.fs, Parent(dest_path))
                \/ IsDir(w.fs, dest_path)
             THEN failed(w.fs, "rename", w.handles)
             ELSE IF src_path = dest_path
             THEN done(w.fs, "File moved to the storageDir", w.handles)
             ELSE done(Put(Remove(w.fs, src_path), dest_path, w.fs[src_path]),
                       "File moved to the storageDir", w.handles)
        ELSE [w EXCEPT !.last = call]

----------------------------------------------------------------------------
(* search_and_process: the visitor of the locate and transfer modes.       *)
(* Returns the changed state and the visitor's return value.               *)

\* a variant that transfers without checking the storage directory
search_and_process_NoDirCheck(w, fpath, typeflag, base, g, flt) ==
    IF typeflag = "FTW_F" /\ strcmp0(StrFrom(fpath, base), g.enteredFileName)
    THEN LET w1 == [w EXCEPT !.found = fpath]
         IN  IF g.operation # NULL
             THEN [w |-> copy_or_move_file(w1, w1.found,
                                           Join(g.storageDir, g.enteredFileName),
                                           g.operation, flt),
                   ret |-> 0]
             ELSE [w |-> [w1 EXCEPT !.out = @ \o <<PathLine(w1.found)>>],
                   ret |-> 0]
    ELSE [w |-> w, ret |-> 0]

\* a variant that compares the whole path (fpath, not fpath + base)
search_and_process_FullPath(w, fpath, typeflag, base, g, flt) ==
    IF typeflag = "FTW_F" /\ strcmp0(fpath, g.enteredFileName)
    THEN LET w1 == [w EXCEPT !.found = fpath]
         IN  IF g.operation # NULL
             THEN LET dest_path == Join(g.storageDir, g.enteredFileName)
                  IN  IF ~directory_exists(w1.fs, g.storageDir)
                      THEN [w |-> [w1 EXCEPT !.out = @ \o
                                     <<Msg("Search Successful: Invalid storageDir")>>],
                            ret |-> 1]
                      ELSE [w |-> copy_or_move_file(w1, w1.found, dest_path,
                                                    g.operation, flt),
                            ret |-> 0]
             ELSE [w |-> [w1 EXCEPT !.out = @ \o <<PathLine(w1.found)>>],
                   ret |-> 0]
    ELSE [w |-> w, ret |-> 0]

\* a variant that tests strcmp(...) instead of strcmp(...) == 0
search_and_process_StrcmpTruthy(w, fpath, typeflag, base, g, flt) ==
    IF typeflag = "FTW_F" /\ ~strcmp0(StrFrom(fpath, base), g.enteredFileName)
    THEN LET w1 == [w EXCEPT !.found = fpath]
         IN  IF g.operation # NULL
             THEN LET dest_path == Join(g.storageDir, g.enteredFileName)
                  IN  IF ~directory_exists(w1.fs, g.storageDir)
                      THEN [w |-> [w1 EXCEPT !.out = @ \o
                                     <<Msg("Search Successful: Invalid storageDir")>>],
                            ret |-> 1]
                      ELSE [w |-> copy_or_move_file(w1, w1.found, dest_path,
                                                    g.operation, flt),
                            ret |-> 0]
             ELSE [w |-> [w1 EXCEPT !.out = @ \o <<PathLine(w1.found)>>],
                   ret |-> 0]
    ELSE [w |-> w, ret |-> 0]

\* a variant that returns 0 after reporting the invalid storage directory
search_and_process_ReturnZero(w, fpath, typeflag, base, g, flt) ==
    IF typeflag = "FTW_F" /\ strcmp0(StrFrom(fpath, base), g.enteredFileName)
    THEN LET w1 == [w EXCEPT !.found = fpath]
         IN  IF g.operation # NULL
             THEN LET dest_path == Join(g.storageDir, g.enteredFileName)
                  IN  IF ~directory_exists(w1.fs, g.storageDir)
                      THEN [w |-> [w1 EXCEPT !.out = @ \o
                                     <<Msg("Search Successful: Invalid storageDir")>>],
                            ret |-> 0]
                      ELSE [w |-> copy_or_move_file(w1, w1.found, dest_path,
                                                    g.operation, flt),
                            ret |-> 0]
             ELSE [w |-> [w1 EXCEPT !.out = @ \o <<PathLine(w1.found)>>],
                   ret |-> 0]
    ELSE [w |-> w, ret |-> 0]

search_and_process(w, fpath, typeflag, base, g, flt) ==
    IF typeflag = "FTW_F" /\ strcmp0(StrFrom(fpath, base), g.enteredFileName)
    THEN LET w1 == [w EXCEPT !.found = fpath]
         IN  IF g.operation # NULL
             THEN LET dest_path == Join(g.storageDir, g.enteredFileName)
                  IN  IF ~directory_exists(w1.fs, g.storageDir)
                      THEN [w |-> [w1 EXCEPT !.out = @ \o
                                     <<Msg("Search Successful: Invalid storageDir")>>],
                            ret |-> 1]
                      ELSE [w |-> copy_or_move_file(w1, w1.found, dest_path,
                                                    g.operation, flt),
                            ret |-> 0]
             ELSE [w |-> [w1 EXCEPT !.out = @ \o <<PathLine(w1.found)>>],
                   ret |-> 0]
    ELSE [w |-> w, ret |-> 0]

----------------------------------------------------------------------------
(* gzip: the archive file holds a header, the deflated payload and a       *)
(* trailer with the payload's length.                                      *)

GzHeader == <<31, 139, 8>>
GzEncode(payload) == GzHeader \o payload \o <<Len(payload) % 256>>
GzDecode(data) == SubSeq(data, Len(GzHeader) + 1, Len(data) - 1)

\* the fread/gzwrite loop of add_file_to_tar; payload is what the gzip
\* handle has been given so far
RECURSIVE TarLoop(_, _, _, _)
TarLoop(data, pos, payload, flt) ==
    LET chunk == Fread(data, pos)
    IN  IF Len(chunk) = 0
        THEN [payload |-> payload, err |-> FALSE]
        ELSE IF flt = "gzwrite"
        THEN [payload |-> payload \o SubSeq(chunk, 1, Len(chunk) - 1),
              err |-> TRUE]
        ELSE TarLoop(data, pos + Len(chunk), payload \o chunk, flt)

\* add_file_to_tar: returns the payload of the gzip handle, whether the
\* write error was reported, and the handles after the call
add_file_to_tar(f, dir_path, filename, payload, flt, h) ==
    LET filepath == Join(dir_path, filename)
    IN  IF ~FopenRead(f, filepath, flt)
        THEN [payload |-> payload, err |-> FALSE, handles |-> h]
        ELSE LET r == TarLoop(f[filepath].data, 0, payload, flt)
             IN  [payload |-> r.payload, err |-> r.err,
                  handles |-> Closed(Opened(h))]

\* a variant that searches the whole path (fpath, not fpath + base)
search_and_create_tar_WholePath(w, fpath, typeflag, base, g, flt) ==
    IF typeflag = "FTW_F" /\ strstr(fpath, g.extension)
    THEN LET w1 == [w EXCEPT !.out = @ \o <<PathLine(fpath)>>,
                             !.opens = @ + 1]
             tarfilename == Snprintf(PathMax, g.storageDir \o <<"/">> \o a1_tar)
         IN  IF ~FopenWrite(w1.fs, tarfilename, flt, "gzopen")
             THEN [w |-> [w1 EXCEPT !.out = @ \o <<Msg("gzopen")>>], ret |-> 1]
             ELSE LET f1 == Put(w1.fs, tarfilename, FileNode(<<>>))
                      r  == add_file_to_tar(f1, fpath, StrFrom(fpath, base),
                                            <<>>, flt, Opened(w1.handles))
                      o  == IF r.err
                            THEN <<Msg("Error writing to tar file")>>
                            ELSE <<>>
                  IN  [w |-> [w1 EXCEPT
                                !.fs = Put(f1, tarfilename,
                                           FileNode(GzEncode(r.payload))),
                                !.out = @ \o o,
                                !.handles = Closed(r.handles)],
                       ret |-> 0]
    ELSE [w |-> w, ret |-> 0]

\* search_and_create_tar: the visitor of the archive mode
search_and_create_tar(w, fpath, typeflag, base, g, flt) ==
    IF typeflag = "FTW_F" /\ strstr(StrFrom(fpath, base), g.extension)
    THEN LET w1 == [w EXCEPT !.out = @ \o <<PathLine(fpath)>>,
                             !.opens = @ + 1]
             tarfilename == Snprintf(PathMax, g.storageDir \o <<"/">> \o a1_tar)
         IN  IF ~FopenWrite(w1.fs, tarfilename, flt, "gzopen")
             THEN [w |-> [w1 EXCEPT !.out = @ \o <<Msg("gzopen")>>], ret |-> 1]
             ELSE LET f1 == Put(w1.fs, tarfilename, FileNode(<<>>))
                      r  == add_file_to_tar(f1, fpath, StrFrom(fpath, base),
                                            <<>>, flt, Opened(w1.handles))
                      o  == IF r.err
                            THEN <<Msg("Error writing to tar file")>>
                            ELSE <<>>
                  IN  [w |-> [w1 EXCEPT
                                !.fs = Put(f1, tarfilename,
                                           FileNode(GzEncode(r.payload))),
                                !.out = @ \o o,
                                !.handles = Closed(r.handles)],
                       ret |-> 0]
    ELSE [w |-> w, ret |-> 0]

----------------------------------------------------------------------------
(* The inputs: the command line and the file system the program starts in *)

\* lengths of the files named a.log: empty, one byte, one full buffer, and
\* MaxChunks full buffers and one byte more
Sizes == {0, 1, BufSize, MaxChunks * BufSize + 1}

FixedTree ==
    (dir_r :> DirNode) @@ (dir_s :> DirNode)
    @@ (file_f :> FileNode(Content(7, 1)))
    @@ ((dir_r \o <<"/">> \o c_txt) :> FileNode(Content(3, 2)))
    @@ ((dir_r \o <<"/">> \o d_log) :> DirNode)
    @@ ((dir_r \o <<"/">> \o d_log \o <<"/">> \o x_txt) :> FileNode(Content(4, 3)))

r_a_log   == dir_r \o <<"/">> \o a_log
r_d_log   == dir_r \o <<"/">> \o d_log
r_d_a_log == r_d_log \o <<"/">> \o a_log
r_d_x_txt == r_d_log \o <<"/">> \o x_txt
r_c_txt   == dir_r \o <<"/">> \o c_txt
r_m_logf  == dir_r \o <<"/">> \o m_logf
s_a_log   == dir_s \o <<"/">> \o a_log

OptionalFiles(n) ==
    (r_a_log :> FileNode(Content(1, n)))
    @@ (r_d_a_log :> FileNode(Content(2, n)))
    @@ (r_m_logf :> FileNode(Content(5, 1)))
    @@ (s_a_log :> FileNode(Content(6, 1)))

Tree(present, n) ==
    LET opt == OptionalFiles(n)
    IN  [p \in DOMAIN FixedTree \cup present |->
            IF p \in present THEN opt[p] ELSE FixedTree[p]]

Roots == {dir_r, file_f, none_n}
Storages == {dir_s, none_n, r_d_log}
Operations == {op_cp, op_mv, op_rm}
Targets == {a_log, d_log, z_txt}
Extensions == {ext_log, ext_txt}

Init ==
    /\ \E present \in SUBSET DOMAIN OptionalFiles(0), n \in Sizes :
           fs0 = Tree(present, n)
    /\ dirOrder \in {"asc", "desc"}
    /\ argc \in {2, 3, 4, 5}
    /\ rootDir \in IF argc = 2 THEN {NULL} ELSE Roots
    /\ storageDir \in IF argc \in {4, 5} THEN Storages ELSE {NULL}
    /\ operation \in IF argc = 5 THEN Operations ELSE {NULL}
    /\ enteredFileName \in IF argc \in {3, 5} THEN Targets ELSE {NULL}
    /\ extension \in IF argc = 4 THEN Extensions ELSE {NULL}
    /\ fs = fs0
    /\ found_file = NULL
    /\ pc = "main"
    /\ todo = <<>>
    /\ nftwRet = 0
    /\ out = <<>>
    /\ exitCode = -1
    /\ visited = <<>>
    /\ lastCall = NoTransfer
    /\ tarOpens = 0
    /\ handles = NoHandles

\* the globals a visitor reads
Globals ==
    [storageDir |-> storageDir, operation |-> operation,
     enteredFileName |-> enteredFileName, extension |-> extension]

----------------------------------------------------------------------------
(* main, up to the call of nftw *)

Exit(code, lines) ==
    /\ out' = out \o lines
    /\ exitCode' = code
    /\ pc' = "done"
    /\ UNCHANGED <<todo, nftwRet>>

\* nftw(rootDir, visitor, 20, FTW_PHYS) starts at the root
StartWalk ==
    /\ pc' = "walk"
    /\ todo' = <<rootDir>>
    /\ UNCHANGED <<out, exitCode, nftwRet>>

\* argc == 3
MainLocate ==
    /\ pc = "main" /\ argc = 3
    /\ IF ~directory_exists(fs, rootDir)
       THEN Exit(1, <<Msg("Invalid rootDir")>>)
       ELSE StartWalk
    /\ UNCHANGED <<args, found_file, fs, visited, lastCall, tarOpens, handles>>

\* argc == 5
MainTransfer ==
    /\ pc = "main" /\ argc = 5
    /\ IF ~directory_exists(fs, rootDir)
       THEN Exit(1, <<Msg("Invalid rootDir")>>)
       ELSE IF ~strcmp0(operation, op_cp) /\ ~strcmp0(operation, op_mv)
       THEN Exit(1, <<Msg("Invalid operation")>>)
       ELSE StartWalk
    /\ UNCHANGED <<args, found_file, fs, visited, lastCall, tarOpens, handles>>

\* argc == 4
MainArchive ==
    /\ pc = "main" /\ argc = 4
    /\ IF ~directory_exists(fs, rootDir) \/ ~directory_exists(fs, storageDir)
       THEN Exit(1,
                 (IF ~directory_exists(fs, rootDir)
                  THEN <<Msg("Invalid rootDir")>> ELSE <<>>)
                 \o (IF ~directory_exists(fs, storageDir)
                     THEN <<Msg("Search Successful: Invalid storageDir")>>
                     ELSE <<>>))
       ELSE StartWalk
    /\ UNCHANGED <<args, found_file, fs, visited, lastCall, tarOpens, handles>>

\* any other argc
MainUsage ==
    /\ pc = "main" /\ argc \notin {3, 4, 5}
    /\ Exit(1, <<Msg("Invalid number of arguments")>>)
    /\ UNCHANGED <<args, found_file, fs, visited, lastCall, tarOpens, handles>>

----------------------------------------------------------------------------
(* nftw: a physical, pre-order, depth-first walk.  todo holds the entries  *)
(* nftw has read and not yet visited; a directory's entries are read when  *)
(* the directory is opened, right after its own visit.                     *)

World ==
    [fs |-> fs, out |-> out, found |-> found_file, last |-> lastCall,
     opens |-> tarOpens, handles |-> handles]

\* one entry of the walk: the visitor is called, a non-zero return value
\* stops the walk and is what nftw returns
Walk(r, fpath, typeflag) ==
    LET rest == IF typeflag = "FTW_D"
                THEN ReadDir(r.w.fs, fpath, dirOrder) \o Tail(todo)
                ELSE Tail(todo)
    IN  /\ fs' = r.w.fs
        /\ out' = r.w.out
        /\ found_file' = r.w.found
        /\ lastCall' = r.w.last
        /\ tarOpens' = r.w.opens
        /\ handles' = r.w.handles
        /\ visited' = Append(visited, [path |-> fpath, flag |-> typeflag])
        /\ todo' = rest
        /\ nftwRet' = r.ret
        /\ pc' = IF r.ret # 0 \/ rest = <<>> THEN "walked" ELSE "walk"
        /\ UNCHANGED <<args, exitCode>>

\* nftw calls search_and_process for the next entry
VisitProcess ==
    /\ pc = "walk" /\ argc \in {3, 5}
    /\ \E flt \in Faults :
          LET fpath == Head(todo)
              typeflag == TypeFlag(fs, fpath)
          IN  Walk(search_and_process(World, fpath, typeflag,
                                      BaseOffset(fpath), Globals, flt),
                   fpath, typeflag)

\* nftw calls search_and_create_tar for the next entry
VisitTar ==
    /\ pc = "walk" /\ argc = 4
    /\ \E flt \in Faults :
          LET fpath == Head(todo)
              typeflag == TypeFlag(fs, fpath)
          IN  Walk(search_and_create_tar(World, fpath, typeflag,
                                         BaseOffset(fpath), Globals, flt),
                   fpath, typeflag)

\* nftw itself fails (a directory cannot be read): it returns -1
NftwFail ==
    /\ pc = "walk"
    /\ nftwRet' = -1
    /\ pc' = "walked"
    /\ UNCHANGED <<args, found_file, fs, todo, out, exitCode, visited,
                   lastCall, tarOpens, handles>>

----------------------------------------------------------------------------
(* main, after nftw has returned *)

MainEnd ==
    /\ pc = "walked"
    /\ IF nftwRet = -1
       THEN Exit(1, <<Msg("nftw")>>)
       ELSE IF argc \in {3, 5} /\ found_file = NULL
       THEN Exit(0, <<Msg("Search Unsuccessful")>>)
       ELSE Exit(0, <<>>)
    /\ UNCHANGED <<args, found_file, fs, visited, lastCall, tarOpens, handles>>

Next ==
    \/ MainLocate
    \/ MainTransfer
    \/ MainArchive
    \/ MainUsage
    \/ VisitProcess
    \/ VisitTar
    \/ NftwFail
    \/ MainEnd

Spec == Init /\ [][Next]_vars

----------------------------------------------------------------------------
TypeOK ==
    /\ pc \in {"main", "walk", "walked", "done"}
    /\ exitCode \in {-1, 0, 1}
    /\ (pc = "done") = (exitCode # -1)
    /\ tarOpens \in Nat
    /\ handles.open \in Nat /\ handles.total \in Nat

----------------------------------------------------------------------------
(* Vocabulary of the properties *)

Range(seq) == {seq[i] : i \in 1..Len(seq)}

BaseName(p) == StrFrom(p, BaseOffset(p))

\* p lies below the root directory of the run
InTree(p) ==
    /\ Len(p) > Len(rootDir) + 1
    /\ SubSeq(p, 1, Len(rootDir) + 1) = rootDir \o <<"/">>

\* the entries, and the regular files, of the initial tree named name
EntriesNamed(name) == {p \in DOMAIN fs0 : InTree(p) /\ BaseName(p) = name}
RegularNamed(name) == {p \in EntriesNamed(name) : fs0[p].type = "file"}

\* the entries of the initial tree, the root included
TreeEntries == {rootDir} \cup {p \in DOMAIN fs0 : InTree(p)}

Said(m) == Msg(m) \in Range(out)

\* the paths printed, in order
PrintedPaths ==
    LET ls == SelectSeq(out, LAMBDA l : l.msg = "path")
    IN  [i \in 1..Len(ls) |-> ls[i].path]

\* the visited paths, in order, and those the transfer visitor matched
VisitedPaths == [i \in 1..Len(visited) |-> visited[i].path]
MatchVisits ==
    LET vs == SelectSeq(visited, LAMBDA v :
                  v.flag = "FTW_F" /\ BaseName(v.path) = enteredFileName)
    IN  [i \in 1..Len(vs) |-> vs[i].path]

RootValid == IsDir(fs0, rootDir)
StorageValid == IsDir(fs0, storageDir)
TransferMode == argc = 5 /\ operation \in {op_cp, op_mv}

\* the run is over and nftw did not fail
Completed == pc = "done" /\ nftwRet # -1

\* no system call of a transfer or of the archive writer reported a failure
NoFailureSaid ==
    \A m \in {"fopen source file", "fopen destination file", "fwrite",
              "rename", "gzopen", "Error writing to tar file"} : ~Said(m)

ArchivePath == storageDir \o <<"/">> \o a1_tar
TargetPath == storageDir \o <<"/">> \o enteredFileName

----------------------------------------------------------------------------
\* C1: archive mode: when at least one regular file's base name contains the
\* extension, after the run storageDir/a1.tar holds exactly the bytes of the
\* last matched file in visit order.
C1_ArchiveHoldsLastMatch ==
    (/\ Completed /\ argc = 4 /\ nftwRet = 0 /\ NoFailureSaid
     /\ PrintedPaths # <<>>)
    => /\ IsFile(fs, ArchivePath)
       /\ GzDecode(fs[ArchivePath].data)
            = fs0[PrintedPaths[Len(PrintedPaths)]].data

----------------------------------------------------------------------------
----------------------------------------------------------------------------
ConfigError ==
    \/ argc \notin {3, 4, 5}
    \/ argc \in {3, 4, 5} /\ ~RootValid
    \/ argc \in {4, 5} /\ ~StorageValid
    \/ argc = 5 /\ operation \notin {op_cp, op_mv}

\* C3: every configuration error (invalid root, invalid storage directory in
\* archive and in transfer mode, invalid operation, wrong argument count)
\* ends the run with exit code 1; exit code 0 only when there was none and
\* no traversal error.
C3_ConfigErrorsExit1 ==
    pc = "done"
    => /\ ConfigError => exitCode = 1
       /\ exitCode = 0 => (~ConfigError /\ nftwRet # -1)

----------------------------------------------------------------------------
\* C4: transfer mode with several regular files of the target base name:
\* every entry is visited and storageDir/targetName ends with the content of
\* the first matched file.
C4_FirstMatchWins ==
    (/\ Completed /\ TransferMode /\ StorageValid /\ ~InTree(TargetPath)
     /\ NoFailureSaid /\ Len(MatchVisits) >= 2)
    => /\ Range(VisitedPaths) = TreeEntries
       /\ IsFile(fs, TargetPath)
       /\ fs[TargetPath].data = fs0[MatchVisits[1]].data

----------------------------------------------------------------------------
\* the latest call of copy_or_move_file printed its confirmation m
Confirmed(m) ==
    /\ Len(out) >= lastCall.at + 2
    /\ out[lastCall.at + 1] = Msg("Search Successful")
    /\ out[lastCall.at + 2] = Msg(m)

\* C5: copy: whenever copy_or_move_file reports success for source S and
\* destination D, D holds the bytes S had before the call and S still
\* exists, whatever the length of S.
C5_CopyByteIdentical ==
    (lastCall.op = op_cp /\ Confirmed("File copied to the storageDir"))
    => /\ IsFile(fs, lastCall.dest)
       /\ fs[lastCall.dest].data = lastCall.before
       /\ IsFile(fs, lastCall.src)

----------------------------------------------------------------------------
\* the latest call of copy_or_move_file reported that rename failed, printed
\* no confirmation, and left the source as it was
RenameFailureReported ==
    /\ Len(out) > lastCall.at
    /\ out[lastCall.at + 1] = Msg("rename")
    /\ \A i \in (lastCall.at + 1)..Len(out) :
           out[i].msg \notin {"Search Successful", "File moved to the storageDir"}
    /\ IsFile(fs, lastCall.src)
    /\ fs[lastCall.src].data = lastCall.before

\* C6 (as stated): move: on success D holds the content S had and the path S
\* no longer exists; when rename fails the failure is reported, nothing is
\* confirmed and S is left in place.
C6_SourceAlwaysGone ==
    lastCall.op = op_mv
    => IF Confirmed("File moved to the storageDir")
       THEN /\ IsFile(fs, lastCall.dest)
            /\ fs[lastCall.dest].data = lastCall.before
            /\ lastCall.src \notin DOMAIN fs
       ELSE RenameFailureReported

\* C6 (amended): move: on success D holds the content S had and, unless S
\* and D are the same path, the path S no longer exists; when rename fails
\* the failure is reported, nothing is confirmed and S is left in place.
C6_SourceGoneUnlessSamePath ==
    lastCall.op = op_mv
    => IF Confirmed("File moved to the storageDir")
       THEN /\ IsFile(fs, lastCall.dest)
            /\ fs[lastCall.dest].data = lastCall.before
            /\ lastCall.src # lastCall.dest => lastCall.src \notin DOMAIN fs
       ELSE RenameFailureReported

C6_Witness ==
    /\ lastCall.op = op_mv
    /\ Confirmed("File moved to the storageDir")
    /\ lastCall.src # lastCall.dest
    /\ Len(lastCall.before) > BufSize
    /\ lastCall.src \notin DOMAIN fs
    /\ fs[lastCall.dest].data = lastCall.before

----------------------------------------------------------------------------
LocateRun == Completed /\ argc = 3 /\ RootValid

\* C7 (as stated): locate mode: when exactly one entry of the tree has base
\* name N, the run prints exactly that entry's path and exits 0.
C7_UniqueEntryPrinted ==
    (LocateRun /\ Cardinality(EntriesNamed(enteredFileName)) = 1)
    => /\ \A p \in EntriesNamed(enteredFileName) : out = <<PathLine(p)>>
       /\ exitCode = 0

\* C7 (amended): locate mode: when exactly one regular file of the tree has
\* base name N, the run prints exactly that file's path (one line, no
\* 'Search Unsuccessful') and exits 0.
C7_UniqueRegularFilePrinted ==
    (LocateRun /\ Cardinality(RegularNamed(enteredFileName)) = 1)
    => /\ \A p \in RegularNamed(enteredFileName) : out = <<PathLine(p)>>
       /\ exitCode = 0

C7_Witness ==
    /\ LocateRun
    /\ RegularNamed(enteredFileName) = {r_d_a_log}
    /\ out = <<PathLine(r_d_a_log)>>
    /\ exitCode = 0

----------------------------------------------------------------------------
\* C8: locate mode: when no entry of the tree has base name N, the run
\* prints the search-unsuccessful message, prints no path, and exits 0.
C8_AbsentUnsuccessful ==
    (LocateRun /\ EntriesNamed(enteredFileName) = {})
    => /\ out = <<Msg("Search Unsuccessful")>>
       /\ exitCode = 0

C8_Witness ==
    /\ LocateRun
    /\ enteredFileName = a_log
    /\ s_a_log \in DOMAIN fs0
    /\ EntriesNamed(enteredFileName) = {}
    /\ out = <<Msg("Search Unsuccessful")>>

----------------------------------------------------------------------------
\* name holds ext as a contiguous run of characters, at any position
ContainsAt(name, ext) ==
    \E k \in 0..(Len(name) - Len(ext)) :
        \A j \in 1..Len(ext) : name[k + j] = ext[j]

\* the visited entries the archive visitor has to match, in order
ExpectedMatches ==
    LET vs == SelectSeq(visited, LAMBDA v :
                  v.flag = "FTW_F" /\ ContainsAt(BaseName(v.path), extension))
    IN  [i \in 1..Len(vs) |-> vs[i].path]

\* C9: archive mode: a visited entry is matched (its path printed and the
\* archive writer invoked) if and only if it is a regular file whose base
\* name contains the extension at any position: m.logf matches .log, c.txt
\* does not, and x.txt inside the directory d.log does not.
C9_MatchIffBaseNameContains ==
    argc = 4
    => /\ PrintedPaths = ExpectedMatches
       /\ tarOpens = Len(ExpectedMatches)
       /\ extension = ext_log
            => /\ r_m_logf \in Range(VisitedPaths)
                    => r_m_logf \in Range(PrintedPaths)
               /\ r_c_txt \notin Range(PrintedPaths)
               /\ r_d_x_txt \notin Range(PrintedPaths)
               /\ r_d_log \notin Range(PrintedPaths)

C9_Witness ==
    /\ argc = 4 /\ extension = ext_log /\ pc = "done"
    /\ {r_m_logf, r_c_txt, r_d_x_txt, r_d_log} \subseteq Range(VisitedPaths)
    /\ r_m_logf \in Range(PrintedPaths)
    /\ r_d_x_txt \notin Range(PrintedPaths)
    /\ tarOpens = Len(PrintedPaths)

----------------------------------------------------------------------------
\* C10: in all three modes, when the root path does not exist or is a
\* regular file, the run reports an invalid root, exits 1 and starts no
\* traversal: no visitor call, no path printed, no change of the file system.
C10_InvalidRootNoWalk ==
    (argc \in {3, 4, 5} /\ ~IsDir(fs0, rootDir))
    => /\ pc \in {"main", "done"}
       /\ visited = <<>>
       /\ PrintedPaths = <<>>
       /\ fs = fs0
       /\ pc = "done" => (exitCode = 1 /\ Said("Invalid rootDir"))

C10_Witness ==
    /\ pc = "done" /\ argc = 5
    /\ IsFile(fs0, rootDir)
    /\ exitCode = 1
    /\ Said("Invalid rootDir")
    /\ visited = <<>>

----------------------------------------------------------------------------
\* C11: found_file is assigned at most once in a run and never cleared: once
\* it is not NULL its value never changes again, also over a tree with
\* several regular files of the target base name.
C11_FoundFileSetOnce ==
    [][found_file # NULL => found_file' = found_file]_vars

----------------------------------------------------------------------------
InvalidStorageSaid == Said("Search Successful: Invalid storageDir")

\* C12 (as stated): the transfer visitor with a storage directory that does
\* not exist reports it on a matching entry and stops processing only that
\* entry: every remaining entry of the tree is still visited.
C12_TraversalContinues ==
    (/\ Completed /\ TransferMode /\ RootValid /\ ~StorageValid
     /\ InvalidStorageSaid)
    => Range(VisitedPaths) = TreeEntries

\* C12 (amended): the transfer visitor with a storage directory that does
\* not exist reports it on the first matching entry and returns 1, which
\* stops the traversal: the match is the last entry visited, the entries
\* nftw had still to visit are not visited, and nftw returns 1.
C12_TraversalStops ==
    (TransferMode /\ ~StorageValid /\ InvalidStorageSaid)
    => /\ pc \in {"walked", "done"}
       /\ nftwRet = 1
       /\ Len(MatchVisits) = 1
       /\ visited[Len(visited)].path = MatchVisits[1]
       /\ found_file = MatchVisits[1]
       /\ out = <<Msg("Search Successful: Invalid storageDir")>>

C12_Witness ==
    /\ pc = "done" /\ TransferMode /\ ~StorageValid
    /\ InvalidStorageSaid
    /\ todo # <<>>
    /\ Range(VisitedPaths) # TreeEntries
    /\ nftwRet = 1

----------------------------------------------------------------------------
\* C13: every file or gzip handle opened by copy_or_move_file,
\* add_file_to_tar and search_and_create_tar is closed before the call
\* returns, on every exit path: between visitor calls and at the end of the
\* run no handle of these operations is open.
C13_HandlesBalanced == handles.open = 0

C13_Witness ==
    /\ pc = "done"
    /\ Said("fopen destination file")
    /\ handles.total >= 3
    /\ handles.open = 0

----------------------------------------------------------------------------
\* C14: a copy run changes the content of no file that existed before the
\* run, other than creating or overwriting storageDir/targetName with the
\* original bytes of a matched file; in particular, when a matched file's
\* path is itself storageDir/targetName, its original bytes are preserved.
C14_CopyPreservesFiles ==
    (TransferMode /\ operation = op_cp /\ NoFailureSaid)
    => /\ \A p \in DOMAIN fs0 \ {TargetPath} :
              p \in DOMAIN fs /\ fs[p] = fs0[p]
       /\ (/\ TargetPath \in DOMAIN fs
           /\ (TargetPath \in DOMAIN fs0 => fs[TargetPath] # fs0[TargetPath]))
            => \E m \in RegularNamed(enteredFileName) :
                   fs[TargetPath] = fs0[m]
       /\ (lastCall.op = op_cp /\ lastCall.src = lastCall.dest)
            => DataOf(fs, lastCall.dest) = lastCall.before

====
